---- MODULE Spec2Model ----
(***************************************************************************)
(* Model of the chat session engine:                                       *)
(*   - the resident-handle caches and the admission gate of                *)
(*     app/routers/v1.py           (specifications SpecResolve, SpecGate), *)
(*   - the interruption coordinator of app/utils/chat/managers/stream.py   *)
(*     on top of the asyncio ready queue       (specification SpecIntr),   *)
(*   - the role-segmented message histories of                             *)
(*     app/utils/chat/managers/message.py      (specification SpecHist).   *)
(***************************************************************************)
EXTENDS Integers, Sequences, FiniteSets, TLC

VARIABLES
    \* ---- app/routers/v1.py
    completion_generators,  \* deque of resident generation handles
    embedding_generators,   \* deque of resident embedding handles
    semaphore,              \* value of the anyio semaphore (the admission gate)
    imported,               \* backend modules whose import succeeded
    req,                    \* the HTTP requests of the process
    last_resolve,           \* what the most recent resolve call did
    killed,                 \* kill(getpid(), SIGINT) was issued
    \* ---- app/utils/chat/managers/stream.py, _interruption_event_watcher
    buffer_done,            \* buffer.done (interruptSignal)
    is_stream_in_progress,  \* buffer.is_stream_in_progress (holdSignal)
    ready,                  \* the event loop's FIFO queue of ready callbacks
    future,                 \* state of the work future
    monitoring,             \* state of the monitoring_events task
    caller,                 \* state of the coroutine inside asyncio.wait
    waiter_done,            \* asyncio.wait's internal waiter has a result
    obs,                    \* observations of the current call (history)
    \* ---- app/utils/chat/managers/message.py
    histories,              \* user_chat_context.<role>_message_histories
    cache,                  \* the durable mirror kept by CacheManager
    last_op,                \* what the most recent MessageManager call did
    \* ---- app/utils/chat/managers/stream.py, the loop pair of a session
    queue,                  \* buffer.queue
    last_user_message,      \* buffer.last_user_message
    current_chat_room_id,   \* buffer.current_chat_room_id
    chat_rooms,             \* ids of the conversations in the buffer
    stored,                 \* histories and mirror of the conversation not current
    receiver,               \* _websocket_receiver: "running" or its exception
    sender,                 \* _websocket_sender: "running" or its exception
    gather_exc,             \* exception set on asyncio.gather's future
    chat,                   \* begin_chat: "joined", "returned" or "raised"
    error_frames,           \* internal-error frames begin_chat has sent
    last_item,              \* what the most recent sender iteration did
    \* ---- app/utils/chat/managers/stream.py, _harvest_done_tasks
    task_list,              \* buffer.task_list
    harvest,                \* the harvest pass in progress
    harvest_obs             \* the skips the harvest passes have made so far

cacheVars == <<completion_generators, embedding_generators, semaphore,
               imported, req, last_resolve, killed>>
intrVars == <<buffer_done, is_stream_in_progress, ready, future, monitoring,
              caller, waiter_done, obs>>
histVars == <<histories, cache, last_op>>
sessVars == <<queue, last_user_message, current_chat_room_id, chat_rooms, stored,
              receiver, sender, gather_exc, chat, error_frames, last_item>>
taskVars == <<task_list, harvest, harvest_obs>>
vars == <<cacheVars, intrVars, histVars, sessVars, taskVars>>

(***************************************************************************)
(* Bounds of the model.                                                    *)
(***************************************************************************)
NumReq == 2

\* Most entries held at once, over the three roles, in memory and in the
\* durable store.
MaxEntries == 2

Requests == 1..NumReq

(***************************************************************************)
(* Part 1.  The resource caches and the admission gate.                    *)
(***************************************************************************)

\* deque(maxlen=1), both caches.
DequeMaxLen == 1

\* min_free_memory_mb passed by get_completion_generator.
CompletionCrossMinFree == 512
CompletionSameMinFree == 256
\* min_free_memory_mb passed by get_embedding_generator.
EmbeddingSameMinFree == 256
EmbeddingCrossMinFree == 512

\* Free-memory readings (MB) the eviction helper can observe: below both
\* thresholds, between them, above both.
MemReadings == {100, 300, 600}

\* body.model values clients send to the completion endpoints ("nope" is no
\* member of LLMModels) and to the embedding endpoint.
CompletionBodyModels == {"gpt-4", "pygmalion_13b", "exl", "other", "nope"}
EmbeddingBodyModels == {"pygmalion_13b", "E5", "e5", "sentence_encoder"}

OPENAI_REPLACEMENT_MODELS ==
    [m \in {"gpt-3.5-turbo", "gpt-3.5-turbo-16k", "gpt-4"} |->
        CASE m = "gpt-3.5-turbo" -> "chronos_hermes_13b"
          [] m = "gpt-3.5-turbo-16k" -> "longchat_7b"
          [] m = "gpt-4" -> "pygmalion_13b"]

\* LLMModels.get_value: the class of the enum member, "missing" when the
\* lookup raises.
LLMModels_get_value(name) ==
    CASE name \in {"pygmalion_13b", "chronos_hermes_13b", "longchat_7b"} -> "LlamaCppModel"
      [] name = "exl" -> "ExllamaModel"
      [] name = "other" -> "OtherModel"
      [] OTHER -> "missing"

\* str.lower() on the model names in use.
lower(name) == IF name = "E5" THEN "e5" ELSE name

\* "sentence" in body.model and "encoder" in body.model
is_sentence_encoder(name) == name = "sentence_encoder"

Modules == {"llama_cpp", "exllama", "transformer", "sentence_encoder"}

NoHandle == [id |-> 0, name |-> ""]

HandleIds == 1..(NumReq + 3)

\* Outcomes of <Generator>.from_pretrained.
CtorOutcomes == {"ok", "OSError", "MemoryError", "Exception"}

Other(kind) == IF kind = "completion" THEN "embedding" ELSE "completion"

\* free_memory_of_first_item_from_container (app/models/system.py): frees
\* the first item when the free memory is below min_free_memory_mb.
free_memory_of_first_item_from_container(container, min_free_memory_mb, mem) ==
    IF container # <<>> /\ mem < min_free_memory_mb
    THEN Tail(container)
    ELSE container

DequeAppendUnbounded(d, x) == Append(d, x)

\* deque.append on a deque with maxlen: the oldest item falls out.
DequeAppend(d, x) ==
    IF Len(d) >= DequeMaxLen
    THEN Append(SubSeq(d, Len(d) - DequeMaxLen + 2, Len(d)), x)
    ELSE Append(d, x)

CrossMinFree(kind) ==
    IF kind = "completion" THEN CompletionCrossMinFree ELSE EmbeddingCrossMinFree

SameMinFree(kind) ==
    IF kind = "completion" THEN CompletionSameMinFree ELSE EmbeddingSameMinFree

\* The module a construction needs, by kind and identity.
NeededModule(kind, name, cls) ==
    IF kind = "completion"
    THEN (IF cls = "LlamaCppModel" THEN "llama_cpp" ELSE "exllama")
    ELSE (IF is_sentence_encoder(name) THEN "sentence_encoder" ELSE "transformer")

ReRaiseAsNotFound(e) == "AssertionError"

\* Lines 201-202 and 254-255: except (AssertionError, OSError, MemoryError)
\* as e: raise e.
ReRaise(e) == e

\* One step of the miss path of a resolve call.  st is the state of the call:
\* own / other are the caches of the requested and of the other kind.
\*   inp.kind, inp.name, inp.cls: what is resolved
\*   inp.mem_cross, inp.mem_same: free memory read by the two eviction steps
\*   inp.ctor: outcome of from_pretrained, inp.id: identity of the new handle
MissStep(step, st, inp) ==
    CASE step = "free_other" ->
           IF st.other # <<>>
           THEN LET after == free_memory_of_first_item_from_container(
                                 st.other, CrossMinFree(inp.kind), inp.mem_cross)
                IN [st EXCEPT !.other = after,
                              !.cross_read = inp.mem_cross,
                              !.events = IF after # st.other
                                         THEN Append(@, [ev |-> "evict", kind |-> Other(inp.kind),
                                                         id |-> Head(st.other).id])
                                         ELSE @]
           ELSE st
      [] step = "free_same" ->
           IF DequeMaxLen = Len(st.own)
           THEN LET after == free_memory_of_first_item_from_container(
                                 st.own, SameMinFree(inp.kind), inp.mem_same)
                IN [st EXCEPT !.own = after,
                              !.same_read = inp.mem_same,
                              !.events = IF after # st.own
                                         THEN Append(@, [ev |-> "evict", kind |-> inp.kind,
                                                         id |-> Head(st.own).id])
                                         ELSE @]
           ELSE st
      [] step = "construct" ->
           IF inp.kind = "completion" /\ inp.cls \notin {"LlamaCppModel", "ExllamaModel"}
           THEN [st EXCEPT !.outcome = "AssertionError"]   \* not implemented
           ELSE IF NeededModule(inp.kind, inp.name, inp.cls) \notin inp.imported
           THEN [st EXCEPT !.outcome = "AssertionError"]   \* assert not isinstance(.., str)
           ELSE LET called == [st EXCEPT !.events =
                                  Append(@, [ev |-> "construct", kind |-> inp.kind, id |-> inp.id])]
                IN CASE inp.ctor = "ok" ->
                          [called EXCEPT !.handle = [id |-> inp.id, name |-> inp.name]]
                     [] inp.ctor \in {"OSError", "MemoryError"} ->
                          [called EXCEPT !.outcome = ReRaise(inp.ctor),
                                         !.ctor_raised = inp.ctor]
                     [] OTHER ->    \* except Exception: raise AssertionError
                          [called EXCEPT !.outcome = "AssertionError",
                                         !.ctor_raised = inp.ctor]
      [] step = "append" ->
           [st EXCEPT !.own = DequeAppend(st.own, st.handle),
                      !.outcome = "ok",
                      !.events = IF Len(st.own) >= DequeMaxLen
                                 THEN Append(Append(@, [ev |-> "drop", kind |-> inp.kind,
                                                        id |-> Head(st.own).id]),
                                             [ev |-> "insert", kind |-> inp.kind, id |-> st.handle.id])
                                 ELSE Append(@, [ev |-> "insert", kind |-> inp.kind,
                                                 id |-> st.handle.id])]

RECURSIVE RunSteps(_, _, _)
\* The statements of the miss path in order; an exception ends the call.
RunSteps(steps, st, inp) ==
    IF steps = <<>> \/ st.outcome # "running"
    THEN st
    ELSE RunSteps(Tail(steps), MissStep(Head(steps), st, inp), inp)

CompletionMissOrderConstructFirst == <<"free_same", "construct", "free_other", "append">>

\* get_completion_generator, lines 168-200: the statements after the lookup.
CompletionMissOrder == <<"free_other", "free_same", "construct", "append">>

EmbeddingMissOrderConstructFirst == <<"free_same", "construct", "free_other", "append">>

\* get_embedding_generator, lines 219-253: the statements after the lookup.
EmbeddingMissOrder == <<"free_same", "free_other", "construct", "append">>

ResidentNever(container, name) == {}

\* Lines 164-166 and 215-217: the positions of the cache whose handle has the
\* requested identity.
Resident(container, name) == {i \in 1..Len(container) : container[i].name = name}

\* What a resolve call reports: its outcome, the handle it returned, the
\* eviction / construction events in the order they happened, and the caches
\* after it.  path is "hit", "miss" or "unknown" (the identity lookup raised).
ResolveResult(kind, name, own, other, other0, st, path) ==
    [kind |-> kind, name |-> name, path |-> path,
     outcome |-> st.outcome, handle |-> st.handle, events |-> st.events,
     other_before |-> other0 # <<>>,
     cross_read |-> st.cross_read, same_read |-> st.same_read,
     ctor_raised |-> st.ctor_raised,
     unknown |-> (kind = "completion"
                  /\ st.cls \notin {"LlamaCppModel", "ExllamaModel"}),
     completion_generators |-> IF kind = "completion" THEN own ELSE other,
     embedding_generators |-> IF kind = "completion" THEN other ELSE own]

StartState(own, other) ==
    [own |-> own, other |-> other, events |-> <<>>, handle |-> NoHandle,
     outcome |-> "running", cross_read |-> 0, same_read |-> 0,
     ctor_raised |-> "none", cls |-> "none"]

get_completion_generator(body_model, comp, emb, inp) ==
    LET name == IF body_model \in DOMAIN OPENAI_REPLACEMENT_MODELS
                THEN OPENAI_REPLACEMENT_MODELS[body_model]
                ELSE body_model
        cls == LLMModels_get_value(name)
        st0 == [StartState(comp, emb) EXCEPT !.cls = cls]
        hits == Resident(comp, name)
    IN  IF cls = "missing"
        THEN \* get_value raises; lines 203-205 turn it into an AssertionError
             ResolveResult("completion", name, comp, emb, emb,
                           [st0 EXCEPT !.outcome = "AssertionError"], "unknown")
        ELSE IF hits # {}
        THEN ResolveResult("completion", name, comp, emb, emb,
                           [st0 EXCEPT !.outcome = "ok",
                                       !.handle = comp[CHOOSE i \in hits : TRUE]], "hit")
        ELSE LET st == RunSteps(CompletionMissOrder, st0,
                                [inp EXCEPT !.kind = "completion", !.name = name, !.cls = cls])
             IN ResolveResult("completion", name, st.own, st.other, emb, st, "miss")

get_embedding_generator(body_model, comp, emb, inp) ==
    LET name == lower(body_model)
        st0 == StartState(emb, comp)
        hits == Resident(emb, name)
    IN  IF hits # {}
        THEN ResolveResult("embedding", name, emb, comp, comp,
                           [st0 EXCEPT !.outcome = "ok",
                                       !.handle = emb[CHOOSE i \in hits : TRUE]], "hit")
        ELSE LET st == RunSteps(EmbeddingMissOrder, st0,
                                [inp EXCEPT !.kind = "embedding", !.name = name, !.cls = "none"])
             IN ResolveResult("embedding", name, st.own, st.other, comp, st, "miss")


\* ---- resolve calls, observed one at a time

NoResolve ==
    [kind |-> "none", name |-> "", path |-> "unknown",
     outcome |-> "none", handle |-> NoHandle, events |-> <<>>,
     other_before |-> FALSE, cross_read |-> 0, same_read |-> 0]

\* raised: the exception that left the resolve call of the request;
\* ctor_raised: what from_pretrained raised in it; unknown: the identity is
\* no member of LLMModels or of a class the resolve does not implement.
IdleReq == [pc |-> "idle", stream |-> FALSE, handle |-> 0, gate |-> FALSE,
            response |-> "none", raised |-> "none", ctor_raised |-> "none",
            unknown |-> FALSE]

UsedIds ==
    {completion_generators[i].id : i \in 1..Len(completion_generators)}
    \cup {embedding_generators[i].id : i \in 1..Len(embedding_generators)}
    \cup {req[r].handle : r \in Requests}
    \cup {last_resolve.handle.id}

\* The free memory an eviction step can read; none is read on an empty cache.
Readings(container) == IF container = <<>> THEN {600} ELSE MemReadings

Inputs(mem_cross, mem_same, ctor) ==
    [kind |-> "none", name |-> "", cls |-> "none",
     mem_cross |-> mem_cross, mem_same |-> mem_same,
     ctor |-> ctor, imported |-> imported,
     id |-> CHOOSE i \in HandleIds : i \notin UsedIds]

Observed(res) ==
    [kind |-> res.kind,
     name |-> res.name, path |-> res.path,
     outcome |-> res.outcome, handle |-> res.handle,
     events |-> res.events, other_before |-> res.other_before,
     cross_read |-> res.cross_read, same_read |-> res.same_read]

\* One call of get_completion_generator.
CallCompletion ==
    /\ UNCHANGED <<intrVars, histVars, sessVars, taskVars>>
    /\ \E body_model \in CompletionBodyModels,
       mem_cross \in Readings(embedding_generators),
       mem_same \in Readings(completion_generators),
       ctor \in CtorOutcomes :
        LET res == get_completion_generator(body_model, completion_generators,
                       embedding_generators, Inputs(mem_cross, mem_same, ctor))
        IN  /\ completion_generators' = res.completion_generators
            /\ embedding_generators' = res.embedding_generators
            /\ last_resolve' = Observed(res)
            /\ UNCHANGED <<semaphore, imported, req, killed>>

\* One call of get_embedding_generator.
CallEmbedding ==
    /\ UNCHANGED <<intrVars, histVars, sessVars, taskVars>>
    /\ \E body_model \in EmbeddingBodyModels,
       mem_cross \in Readings(completion_generators),
       mem_same \in Readings(embedding_generators),
       ctor \in CtorOutcomes :
        LET res == get_embedding_generator(body_model, completion_generators,
                       embedding_generators, Inputs(mem_cross, mem_same, ctor))
        IN  /\ completion_generators' = res.completion_generators
            /\ embedding_generators' = res.embedding_generators
            /\ last_resolve' = Observed(res)
            /\ UNCHANGED <<semaphore, imported, req, killed>>

NextResolve == CallCompletion \/ CallEmbedding

\* ---- the requests: create_chat_completion, create_completion, create_embedding

CanAcquireAlways(value) == TRUE

\* anyio.Semaphore.acquire proceeds only while the value is positive.
CanAcquire(value) == value > 0

\* A request reaches an endpoint and waits in the get_semaphore dependency.
Arrive(r) ==
    /\ UNCHANGED <<intrVars, histVars, sessVars, taskVars>>
    /\ ~killed
    /\ req[r].pc = "idle"
    /\ req' = [req EXCEPT ![r].pc = "waiting"]
    /\ UNCHANGED <<completion_generators, embedding_generators, semaphore,
                   imported, last_resolve, killed>>

\* get_semaphore: async with semaphore, entered.
Acquire(r) ==
    /\ UNCHANGED <<intrVars, histVars, sessVars, taskVars>>
    /\ req[r].pc = "waiting"
    /\ CanAcquire(semaphore)
    /\ semaphore' = semaphore - 1
    /\ req' = [req EXCEPT ![r].pc = "acquired", ![r].gate = TRUE]
    /\ UNCHANGED <<completion_generators, embedding_generators, imported,
                   last_resolve, killed>>

\* RouteErrorHandler.custom_route_handler: the response for an exception.
ErrorResponse(outcome) ==
    IF outcome = "AssertionError" THEN "400" ELSE "500"

\* The handler after its resolve call: it raises, returns the streaming
\* response, or suspends in run_in_threadpool.
AfterResolve(r, res, stream) ==
    /\ completion_generators' = res.completion_generators
    /\ embedding_generators' = res.embedding_generators
    /\ killed' = (killed \/ res.outcome \in {"OSError", "MemoryError"})
    /\ req' = [req EXCEPT ![r] =
          IF res.outcome # "ok"
          THEN [@ EXCEPT !.pc = "returned", !.response = ErrorResponse(res.outcome),
                         !.raised = res.outcome, !.ctor_raised = res.ctor_raised,
                         !.unknown = res.unknown]
          ELSE IF stream
          THEN [@ EXCEPT !.pc = "returned", !.stream = TRUE,
                         !.handle = res.handle.id, !.response = "stream"]
          ELSE [@ EXCEPT !.pc = "generating", !.handle = res.handle.id]]
    /\ UNCHANGED <<semaphore, imported, last_resolve>>

\* create_chat_completion and create_completion up to the first suspension:
\* the resolve call, which has no suspension point of its own.
ResolveCompletion(r) ==
    /\ UNCHANGED <<intrVars, histVars, sessVars, taskVars>>
    /\ req[r].pc = "acquired"
    /\ \E body_model \in CompletionBodyModels, stream \in BOOLEAN,
          mem_cross \in Readings(embedding_generators),
          mem_same \in Readings(completion_generators),
          ctor \in CtorOutcomes :
        AfterResolve(r,
            get_completion_generator(body_model, completion_generators,
                embedding_generators, Inputs(mem_cross, mem_same, ctor)),
            stream)

\* create_embedding up to the first suspension.  embedding_flag is
\* llm_model.embedding of a llama.cpp model.
ResolveEmbedding(r) ==
    /\ UNCHANGED <<intrVars, histVars, sessVars, taskVars>>
    /\ req[r].pc = "acquired"
    /\ \E body_model \in EmbeddingBodyModels :
        IF LLMModels_get_value(body_model) = "LlamaCppModel"
        THEN \E embedding_flag \in BOOLEAN :
               IF embedding_flag /\ "llama_cpp" \in imported
               THEN \E mem_cross \in Readings(embedding_generators),
                       mem_same \in Readings(completion_generators),
                       ctor \in CtorOutcomes :
                      AfterResolve(r,
                          get_completion_generator(body_model, completion_generators,
                              embedding_generators, Inputs(mem_cross, mem_same, ctor)),
                          FALSE)
               ELSE \* an assertion fails before any resolve call
                    /\ req' = [req EXCEPT ![r].pc = "returned", ![r].response = "400"]
                    /\ UNCHANGED <<completion_generators, embedding_generators,
                                   semaphore, imported, last_resolve, killed>>
        ELSE \E mem_cross \in Readings(completion_generators),
                mem_same \in Readings(embedding_generators),
                ctor \in CtorOutcomes :
               AfterResolve(r,
                   get_embedding_generator(body_model, completion_generators,
                       embedding_generators, Inputs(mem_cross, mem_same, ctor)),
                   FALSE)

\* await run_in_threadpool(generate ...) of a non-streaming request returns.
GenerateFinish(r) ==
    /\ UNCHANGED <<intrVars, histVars, sessVars, taskVars>>
    /\ req[r].pc = "generating"
    /\ req' = [req EXCEPT ![r].pc = "returned", ![r].response = "200"]
    /\ UNCHANGED <<completion_generators, embedding_generators, semaphore,
                   imported, last_resolve, killed>>

\* event_publisher starts: the generation of a streaming response.
StreamStart(r) ==
    /\ UNCHANGED <<intrVars, histVars, sessVars, taskVars>>
    /\ req[r].pc = "returned"
    /\ req[r].response = "stream"
    /\ req' = [req EXCEPT ![r].pc = "streaming"]
    /\ UNCHANGED <<completion_generators, embedding_generators, semaphore,
                   imported, last_resolve, killed>>

StreamEnd(r) ==
    /\ UNCHANGED <<intrVars, histVars, sessVars, taskVars>>
    /\ req[r].pc = "streaming"
    /\ req' = [req EXCEPT ![r].pc = "streamed"]
    /\ UNCHANGED <<completion_generators, embedding_generators, semaphore,
                   imported, last_resolve, killed>>

ReleaseOnReturnOnly(r) ==
    /\ UNCHANGED <<intrVars, histVars, sessVars, taskVars>>
    /\ req[r].gate
    /\ req[r].pc \in {"returned", "streamed"}
    /\ semaphore' = IF req[r].raised = "none" THEN semaphore + 1 ELSE semaphore
    /\ req' = [req EXCEPT ![r].gate = FALSE]
    /\ UNCHANGED <<completion_generators, embedding_generators, imported,
                   last_resolve, killed>>

\* get_semaphore: async with semaphore, left.  The framework runs the exit
\* of a dependency with yield once the handler has returned or raised: before
\* the response is sent, or after it has been sent, depending on its version.
Release(r) ==
    /\ UNCHANGED <<intrVars, histVars, sessVars, taskVars>>
    /\ req[r].gate
    /\ req[r].pc \in {"returned", "streamed"}
    /\ semaphore' = semaphore + 1
    /\ req' = [req EXCEPT ![r].gate = FALSE]
    /\ UNCHANGED <<completion_generators, embedding_generators, imported,
                   last_resolve, killed>>

\* The response has been sent and the gate released: the request is over.
Finish(r) ==
    /\ UNCHANGED <<intrVars, histVars, sessVars, taskVars>>
    /\ ~req[r].gate
    /\ \/ req[r].pc = "streamed"
       \/ req[r].pc = "returned" /\ req[r].response # "stream"
    /\ req' = [req EXCEPT ![r] = IdleReq]
    /\ UNCHANGED <<completion_generators, embedding_generators, semaphore,
                   imported, last_resolve, killed>>

NextGate ==
    \E r \in Requests :
        \/ Arrive(r)
        \/ Acquire(r)
        \/ ResolveCompletion(r)
        \/ ResolveEmbedding(r)
        \/ GenerateFinish(r)
        \/ StreamStart(r)
        \/ StreamEnd(r)
        \/ Release(r)
        \/ Finish(r)

(***************************************************************************)
(* Part 2.  _interruption_event_watcher on the asyncio event loop.         *)
(*                                                                         *)
(* ready is the loop's queue of callbacks, run in FIFO order:              *)
(*   "work"         a step of the work future (the command_handler task)   *)
(*   "monitor"      a step of the monitoring_events task                   *)
(*   "done_work", "done_monitor"                                           *)
(*                  the done callback asyncio.wait put on each of the two  *)
(*   "wakeup"       the step of the calling task once its waiter is set    *)
(*   "receiver"     the step of _websocket_receiver on a "stop" text frame *)
(***************************************************************************)

NoObs == [hold_throughout |-> FALSE, hold_never |-> FALSE,
          signal_before_work_done |-> FALSE, first_done |-> "none",
          work_done_at_return |-> FALSE, monitor_done_at_return |-> FALSE,
          signal_at_start |-> FALSE, stop_in_call |-> FALSE]

InQueue(cb) == \E i \in 1..Len(ready) : ready[i] = cb

Without(q, cbs) == SelectSeq(q, LAMBDA cb : cb \notin cbs)

\* The hold signal changed to h while a call is in progress.
ObserveHold(o, h) ==
    [o EXCEPT !.hold_throughout = @ /\ h, !.hold_never = @ /\ ~h]

\* _handle_command: ensure_future(command_handler(...)), then
\* _interruption_event_watcher up to its suspension in asyncio.wait.
StartCall ==
    /\ UNCHANGED <<cacheVars, histVars, sessVars, taskVars>>
    /\ caller # "waiting"
    /\ caller' = "waiting"
    /\ future' = "pending"
    /\ monitoring' = "start"
    /\ waiter_done' = FALSE
    /\ ready' = ready \o <<"work", "monitor">>
    /\ obs' = [NoObs EXCEPT !.hold_throughout = is_stream_in_progress,
                            !.hold_never = ~is_stream_in_progress,
                            !.signal_at_start = buffer_done]
    /\ UNCHANGED <<buffer_done, is_stream_in_progress>>

\* A step of the work: it may set or clear the stream guard (generation run
\* by the command), and it either completes or suspends again.
RunWork ==
    /\ UNCHANGED <<cacheVars, histVars, sessVars, taskVars>>
    /\ ready # <<>> /\ Head(ready) = "work"
    /\ future = "pending"
    /\ \E hold \in BOOLEAN, completes \in BOOLEAN :
        /\ is_stream_in_progress' = hold
        /\ future' = IF completes THEN "finished" ELSE "pending"
        /\ ready' = IF completes THEN Append(Tail(ready), "done_work") ELSE Tail(ready)
        /\ obs' = [ObserveHold(obs, hold) EXCEPT
                      !.signal_before_work_done = IF completes THEN buffer_done ELSE @,
                      !.first_done = IF completes /\ @ = "none" THEN "work" ELSE @]
    /\ UNCHANGED <<buffer_done, monitoring, caller, waiter_done>>

\* What the suspended work waits for (I/O, a worker thread) completes.
WorkReady ==
    /\ UNCHANGED <<cacheVars, histVars, sessVars, taskVars>>
    /\ future = "pending"
    /\ ~InQueue("work")
    /\ ready' = Append(ready, "work")
    /\ UNCHANGED <<buffer_done, is_stream_in_progress, future, monitoring,
                   caller, waiter_done, obs>>

WatcherBreaksAlways(hold) == TRUE

\* monitoring_events, line 160: leave the loop unless the hold signal is set.
WatcherBreaks(hold) == ~hold

\* A step of monitoring_events: from its start, from event.wait() or from
\* sleep(0.1), up to its next suspension or its end.
RunMonitor ==
    /\ UNCHANGED <<cacheVars, histVars, sessVars, taskVars>>
    /\ ready # <<>> /\ Head(ready) = "monitor"
    /\ monitoring \in {"start", "woken", "slept"}
    /\ IF monitoring \in {"start", "slept"} /\ ~buffer_done
       THEN \* await event.wait() suspends
            /\ monitoring' = "waiting_event"
            /\ ready' = Tail(ready)
            /\ obs' = obs
       ELSE IF WatcherBreaks(is_stream_in_progress)
       THEN /\ monitoring' = "finished"
            /\ ready' = Append(Tail(ready), "done_monitor")
            /\ obs' = [obs EXCEPT !.first_done = IF @ = "none" THEN "monitor" ELSE @]
       ELSE \* await asyncio.sleep(0.1)
            /\ monitoring' = "sleeping"
            /\ ready' = Tail(ready)
            /\ obs' = obs
    /\ UNCHANGED <<buffer_done, is_stream_in_progress, future, caller, waiter_done>>

\* The 100 ms timer of asyncio.sleep(0.1) expires.
TimerFires ==
    /\ UNCHANGED <<cacheVars, histVars, sessVars, taskVars>>
    /\ monitoring = "sleeping"
    /\ monitoring' = "slept"
    /\ ready' = Append(ready, "monitor")
    /\ UNCHANGED <<buffer_done, is_stream_in_progress, future, caller,
                   waiter_done, obs>>

\* A bare text frame "stop" arrives: websocket.receive() of the receiver
\* loop completes.
FrameArrives ==
    /\ UNCHANGED <<cacheVars, histVars, sessVars, taskVars>>
    /\ ~InQueue("receiver")
    /\ ready' = Append(ready, "receiver")
    /\ UNCHANGED <<buffer_done, is_stream_in_progress, future, monitoring,
                   caller, waiter_done, obs>>

\* _websocket_receiver -> _handle_text_reception("stop"): buffer.done.set(),
\* which wakes the tasks suspended in event.wait().
RunReceiver ==
    /\ UNCHANGED <<cacheVars, histVars, sessVars, taskVars>>
    /\ ready # <<>> /\ Head(ready) = "receiver"
    /\ buffer_done' = TRUE
    /\ IF ~buffer_done /\ monitoring = "waiting_event"
       THEN /\ monitoring' = "woken"
            /\ ready' = Append(Tail(ready), "monitor")
       ELSE /\ monitoring' = monitoring
            /\ ready' = Tail(ready)
    /\ obs' = [obs EXCEPT !.stop_in_call = @ \/ caller = "waiting"]
    /\ UNCHANGED <<is_stream_in_progress, future, caller, waiter_done>>

\* asyncio.wait's _on_completion: the first one sets the waiter, which
\* schedules the calling task.
RunDoneCallback ==
    /\ UNCHANGED <<cacheVars, histVars, sessVars, taskVars>>
    /\ ready # <<>> /\ Head(ready) \in {"done_work", "done_monitor"}
    /\ waiter_done' = TRUE
    /\ ready' = IF waiter_done THEN Tail(ready) ELSE Append(Tail(ready), "wakeup")
    /\ UNCHANGED <<buffer_done, is_stream_in_progress, future, monitoring,
                   caller, obs>>

KeepPending(state) == state

\* lines 171-172: for t in pending: t.cancel()
CancelPending(state) ==
    IF state = "finished" THEN state ELSE "cancel_requested"

KeepEvent(event) == event

\* line 176: event.clear()
ClearEvent(event) == FALSE

\* asyncio.wait returns (done, pending); lines 171-177.  done is a set: when
\* both futures are in it, either can be the first one the loop visits.
RunWakeup ==
    /\ UNCHANGED <<cacheVars, histVars, sessVars, taskVars>>
    /\ ready # <<>> /\ Head(ready) = "wakeup"
    /\ caller = "waiting"
    /\ \E first \in {t \in {"work", "monitor"} :
                        \/ t = "work" /\ future = "finished"
                        \/ t = "monitor" /\ monitoring = "finished"} :
        /\ future' = CancelPending(future)
        /\ monitoring' = CancelPending(monitoring)
        /\ IF first = "work"
           THEN caller' = "returned" /\ buffer_done' = buffer_done
           ELSE caller' = "raised" /\ buffer_done' = ClearEvent(buffer_done)
    /\ obs' = [obs EXCEPT !.work_done_at_return = (future = "finished"),
                          !.monitor_done_at_return = (monitoring = "finished")]
    \* the steps left over from this call no longer change anything
    /\ ready' = Without(Tail(ready), {"work", "monitor", "done_work", "done_monitor"})
    /\ UNCHANGED <<is_stream_in_progress, waiter_done>>

\* Between two commands the generation of a chat turn sets and clears the
\* stream guard.
StreamGuardBetweenCalls ==
    /\ UNCHANGED <<cacheVars, histVars, sessVars, taskVars>>
    /\ caller # "waiting"
    /\ is_stream_in_progress' = ~is_stream_in_progress
    /\ UNCHANGED <<buffer_done, ready, future, monitoring, caller,
                   waiter_done, obs>>

NextIntr ==
    \/ StartCall
    \/ RunWork
    \/ WorkReady
    \/ RunMonitor
    \/ TimerFires
    \/ FrameArrives
    \/ RunReceiver
    \/ RunDoneCallback
    \/ RunWakeup
    \/ StreamGuardBetweenCalls

(***************************************************************************)
(* Part 3.  MessageManager: the role-segmented histories of one            *)
(* conversation and their durable mirror.                                  *)
(***************************************************************************)

Roles == {"ai", "user", "system"}

None == "None"          \* an absent string
NoInt == 0 - 1          \* an absent integer

\* content of an add; new_content and summarized_content of a set.
Contents == {"a", "bb"}
NewContents == {None, "bb"}
Summaries == {None, "a"}

\* user_chat_context.get_tokens_of: the tokenizer.
get_tokens_of(content) == IF content = "a" THEN 1 ELSE 2

\* user_chat_context.llm_model.value.token_margin
token_margin == 8

\* calculated_tokens_to_use: absent, or the count the caller has computed
\* for the content it passes.
CalculatedTokens(content) == {NoInt, get_tokens_of(content)}

\* uuid, count and index arguments of the calls.
SuppliedUuids == {0, 1}                  \* 0: no uuid given
Counts == {NoInt, 0, 1, 2, 3}
\* update_cache: every call in the sources leaves it at its default, True.
UpdateCache == {TRUE}
Indexes == (0 - MaxEntries - 1)..(MaxEntries + 1)

\* uuid4().hex: a value no entry carries yet.
FreshUuids == 2..(2 * MaxEntries + 3)

SumLen(h) == Len(h["ai"]) + Len(h["user"]) + Len(h["system"])

Uuids(h) == UNION {{h[r][i].uuid : i \in 1..Len(h[r])} : r \in Roles}

NoResult == [kind |-> "none", items |-> <<>>]

\* What a call reports: the operation, its role, what it returned, and
\*   beyond        the index of a set was >= the length of the history
\*   single        the count of a pop was absent or 1
\*   empty_before  the history an add appended to was empty, as was its mirror
\*   after_add     the pop directly followed such an add to the same role
\*   short         the count of a pop was larger than the length of the history
NoOp == [op |-> "none", role |-> "none", beyond |-> FALSE, single |-> FALSE,
         rpop |-> FALSE, empty_before |-> FALSE, after_add |-> FALSE,
         short |-> FALSE, result |-> NoResult]

\* ---- CacheManager (app/utils/chat/managers/cache.py), the durable store

CacheManager_append_message_history(store, role, message_history) ==
    [store EXCEPT ![role] = Append(@, message_history)]

\* count entries leave from the right end; no count means one.
CacheManager_rpop_message_history(store, role, count) ==
    LET n == IF count = NoInt THEN 1 ELSE count
        keep == IF Len(store[role]) > n THEN Len(store[role]) - n ELSE 0
    IN [store EXCEPT ![role] = SubSeq(@, 1, keep)]

CacheManager_lpop_message_history(store, role, count) ==
    LET n == IF count = NoInt THEN 1 ELSE count
    IN [store EXCEPT ![role] = SubSeq(@, n + 1, Len(@))]

CacheManager_delete_message_history(store, role) ==
    [store EXCEPT ![role] = <<>>]

\* ---- Python lists

PyIndexWrapped(index, n) == IF n = 0 THEN 0 ELSE (index % n) + 1

\* list[index]: the position addressed (1-based), 0 for an IndexError.
PyIndex(index, n) ==
    IF 0 <= index /\ index < n THEN index + 1
    ELSE IF index < 0 /\ 0 - n <= index THEN n + index + 1
    ELSE 0

CacheManager_set_message_history(store, role, message_history, index) ==
    LET pos == PyIndex(index, Len(store[role]))
    IN IF pos = 0 THEN store ELSE [store EXCEPT ![role][pos] = message_history]

RECURSIVE PopMany(_, _, _)
\* lines 105-114: pop up to count entries, stopping at the IndexError.
\* Returns <<entries left, entries popped in the order popped>>.
PopMany(list, count, rpop) ==
    IF count <= 0 \/ list = <<>>
    THEN <<list, <<>>>>
    ELSE LET item == IF rpop THEN list[Len(list)] ELSE Head(list)
             rest == IF rpop THEN SubSeq(list, 1, Len(list) - 1) ELSE Tail(list)
             more == PopMany(rest, count - 1, rpop)
         IN <<more[1], <<item>> \o more[2]>>

\* ---- MessageManager

\* lines 37-50: the MessageHistory that add_message_history_safely builds.
NewMessageHistory(role, content, calculated_tokens_to_use, uuid) ==
    [content |-> content,
     tokens |-> IF calculated_tokens_to_use = NoInt
                THEN get_tokens_of(content) + token_margin
                ELSE calculated_tokens_to_use + token_margin,
     summarized |-> None,
     summarized_tokens |-> NoInt,
     actual_role |-> role,
     model_name |-> IF role = "ai" THEN "llm" ELSE None,
     uuid |-> uuid]

add_message_history_safely ==
    /\ UNCHANGED <<cacheVars, intrVars, sessVars, taskVars>>
    /\ SumLen(histories) + SumLen(stored.histories) < MaxEntries
    /\ SumLen(cache) + SumLen(stored.cache) < MaxEntries
    /\ \E role \in Roles, content \in Contents, update_cache \in UpdateCache,
          uuid \in SuppliedUuids :
       \E calculated_tokens_to_use \in CalculatedTokens(content) :
        LET fresh == CHOOSE u \in FreshUuids : u \notin Uuids(histories) \cup Uuids(cache)
            message_history == NewMessageHistory(role, content, calculated_tokens_to_use,
                                   IF uuid # 0 THEN uuid ELSE fresh)
        IN  /\ histories' = [histories EXCEPT ![role] = Append(@, message_history)]
            /\ cache' = IF update_cache
                        THEN CacheManager_append_message_history(cache, role, message_history)
                        ELSE cache
            /\ last_op' = [NoOp EXCEPT !.op = "add", !.role = role,
                                       !.empty_before = (histories[role] = <<>>
                                                         /\ cache[role] = <<>>)]

PopMirrorNone(store, role, count, rpop) == store

\* lines 115-128: the durable pop that mirrors the pop in memory.
PopMirror(store, role, count, rpop) ==
    IF rpop
    THEN CacheManager_rpop_message_history(store, role, count)
    ELSE CacheManager_lpop_message_history(store, role, count)

pop_message_history_safely ==
    /\ UNCHANGED <<cacheVars, intrVars, sessVars, taskVars>>
    /\ \E role \in Roles, count \in Counts, rpop \in BOOLEAN :
        LET list == histories[role]
            call == [NoOp EXCEPT !.op = "pop", !.role = role,
                                 !.single = (count = NoInt \/ count = 1),
                                 !.rpop = rpop,
                                 !.short = (count # NoInt /\ count > Len(list)),
                                 !.after_add = (/\ last_op.op = "add"
                                                /\ last_op.empty_before
                                                /\ last_op.role = role)]
        IN  IF count = NoInt \/ count = 1
            THEN IF list = <<>>
                 THEN \* IndexError: return None
                      /\ last_op' = call
                      /\ UNCHANGED <<histories, cache>>
                 ELSE LET popped == PopMany(list, 1, rpop)
                      IN  /\ histories' = [histories EXCEPT ![role] = popped[1]]
                          /\ cache' = PopMirror(cache, role, count, rpop)
                          /\ last_op' = [call EXCEPT
                                            !.result = [kind |-> "one", items |-> popped[2]]]
            ELSE LET popped == PopMany(list, count, rpop)
                 IN  /\ histories' = [histories EXCEPT ![role] = popped[1]]
                     /\ cache' = PopMirror(cache, role, Len(popped[2]), rpop)
                     /\ last_op' = [call EXCEPT
                                       !.result = [kind |-> "list", items |-> popped[2]]]

\* lines 157-165: the entry after the content updates.
Updated(message_history, new_content, summarized_content) ==
    LET h1 == IF new_content # None
              THEN [message_history EXCEPT !.content = new_content,
                                           !.tokens = get_tokens_of(new_content)]
              ELSE message_history
    IN IF summarized_content # None
       THEN [h1 EXCEPT !.summarized = summarized_content,
                       !.summarized_tokens = get_tokens_of(summarized_content) + token_margin]
       ELSE h1

SetMirrorNone(store, role, message_history, index, update_cache) == store

\* lines 167-174: the durable write that mirrors the change of the entry.
SetMirror(store, role, message_history, index, update_cache) ==
    IF update_cache
    THEN CacheManager_set_message_history(store, role, message_history, index)
    ELSE store

set_message_history_safely ==
    /\ UNCHANGED <<cacheVars, intrVars, sessVars, taskVars>>
    /\ \E role \in Roles, index \in Indexes,
       new_content \in NewContents,
       summarized_content \in Summaries,
       update_cache \in UpdateCache :
        LET pos == PyIndex(index, Len(histories[role]))
            call == [NoOp EXCEPT !.op = "set", !.role = role,
                                 !.beyond = (index >= Len(histories[role]))]
        IN  IF pos = 0
            THEN \* except IndexError: return None
                 /\ last_op' = call
                 /\ UNCHANGED <<histories, cache>>
            ELSE LET changed == Updated(histories[role][pos], new_content,
                                        summarized_content)
                 IN  /\ histories' = [histories EXCEPT ![role][pos] = changed]
                     /\ cache' = SetMirror(cache, role, changed, index, update_cache)
                     /\ last_op' = call

clear_message_history_safely ==
    /\ UNCHANGED <<cacheVars, intrVars, sessVars, taskVars>>
    /\ \E role \in Roles, update_cache \in UpdateCache :
        /\ histories' = [histories EXCEPT ![role] = <<>>]
        /\ cache' = IF update_cache
                    THEN CacheManager_delete_message_history(cache, role)
                    ELSE cache
        /\ last_op' = [NoOp EXCEPT !.op = "clear", !.role = role,
                                   !.result = [kind |-> "count",
                                               items |-> <<Len(histories[role])>>]]

NextHist ==
    \/ add_message_history_safely
    \/ pop_message_history_safely
    \/ set_message_history_safely
    \/ clear_message_history_safely

(***************************************************************************)
(* Part 4.  The loop pair of a session: _websocket_receiver,               *)
(* _websocket_sender and ChatStreamManager.begin_chat.                     *)
(***************************************************************************)

\* Most items waiting in buffer.queue.
MaxQueue == 2

\* chat_room_id values; the session starts in room 1.
ChatRoomIds == {1, 2}

\* msg of a MessageFromWebsocket: a chat text, the retry command, another
\* command.
Msgs == {"hi", "/retry", "/clear"}

\* "/retry".startswith("/retry"), "/clear".startswith("/"), ...
startswith(msg, prefix) ==
    CASE prefix = "/" -> msg \in {"/retry", "/clear"}
      [] prefix = "/retry" -> msg = "/retry"
      [] OTHER -> FALSE

\* What websocket.receive() hands to the receiver loop.
Frames == {"stop", "text", "json_message", "json_filename",
           "json_chat_room_name", "json_model", "bytes", "closed"}

\* The string embed_file_to_vectorstore returns.
EmbeddedText == "embedded"

MessageItem(msg, chat_room_id) ==
    [type |-> "MessageFromWebsocket", msg |-> msg, chat_room_id |-> chat_room_id]

StrItem(text) == [type |-> "str", msg |-> text, chat_room_id |-> 0]

\* How the processing of a queue item can end: normally, with one of the
\* ChatException subclasses, or with another exception.
ChatExceptions == {"ChatTextGenerationException", "ChatStreamingInterruptedException",
                   "ChatGeneralInterruptedException", "ChatOtherException",
                   "ChatTooMuchTokenException"}

DispatchOutcomes == {"ok", "Exception"} \cup ChatExceptions

\* last_item describes the iteration the sender loop has just ended; a step
\* of the receiver or of begin_chat sets it back to NoItem.  recorded: the item recorded a user turn; turns:
\* the roles of the turns the item recorded, in the order of recording;
\* frame: what the exception handler or _change_context sent.
NoItem == [route |-> "none", outcome |-> "none", recorded |-> FALSE, turns |-> <<>>,
           frame |-> "none"]

NoStored == [histories |-> [r \in Roles |-> <<>>], cache |-> [r \in Roles |-> <<>>]]

\* ---- the histories of the current context, as a value passed along the
\* ---- calls of one item

\* add_message_history_safely(role, content) with the defaults.
Added(hc, role, content, uuid) ==
    LET message_history == NewMessageHistory(role, content, NoInt, uuid)
    IN [histories |-> [hc.histories EXCEPT ![role] = Append(@, message_history)],
        cache |-> CacheManager_append_message_history(hc.cache, role, message_history)]

\* pop_message_history_safely(role) with the defaults: count None, rpop True.
PoppedLast(hc, role) ==
    IF hc.histories[role] = <<>>
    THEN hc
    ELSE [histories |-> [hc.histories EXCEPT ![role] = PopMany(@, 1, TRUE)[1]],
          cache |-> PopMirror(hc.cache, role, NoInt, TRUE)]

\* uuid4().hex: a value no entry of the session carries.
FreshUuid(hc) ==
    LET used == Uuids(hc.histories) \cup Uuids(hc.cache)
                \cup Uuids(histories) \cup Uuids(cache)
                \cup Uuids(stored.histories) \cup Uuids(stored.cache)
                \cup {task_list[k].uuid : k \in 1..Len(task_list)}
    IN CHOOSE u \in FreshUuids \ used : \A v \in FreshUuids \ used : u <= v

\* ---- the receiver loop

\* _handle_json_reception: raises when one of its callees raises.
\* raises: LLMModels.get_member / CacheManager.update_profile raised.
HandleJsonRaises(frame, raises) ==
    frame \in {"json_chat_room_name", "json_model"} /\ raises

\* asyncio.gather's outer future takes the exception of the first child
\* that fails.
GatherException(current, e) == IF current = "none" THEN e ELSE current

\* _websocket_receiver has no except clause around the handling of a frame:
\* what a handler raises ends the loop.
ReceiverAfter(e) == e

\* The items a frame can put on the queue: a message frame puts the message,
\* a file puts the text embed_file_to_vectorstore returns, the others nothing.
Puts(frame) ==
    CASE frame = "json_message" ->
           {<<MessageItem(msg, chat_room_id)>> : msg \in Msgs, chat_room_id \in ChatRoomIds}
      [] frame = "bytes" -> {<<StrItem(EmbeddedText)>>}
      [] OTHER -> {<<>>}

\* One iteration of _websocket_receiver: a frame, or the failure of
\* websocket.receive() on a closed connection.
ReceiveFrame ==
    /\ UNCHANGED <<cacheVars, histVars, taskVars>>
    /\ UNCHANGED <<is_stream_in_progress, ready, future, monitoring, caller,
                   waiter_done, obs>>
    /\ UNCHANGED <<last_user_message, current_chat_room_id, chat_rooms, stored,
                   sender, chat, error_frames>>
    /\ last_item' = NoItem
    /\ receiver = "running"
    /\ \E frame \in Frames :
        \/ /\ frame = "closed"                              \* line 258 raises
           /\ receiver' = "RuntimeError_receive"
           /\ gather_exc' = GatherException(gather_exc, "RuntimeError_receive")
           /\ UNCHANGED <<queue, buffer_done>>
        \/ /\ \/ HandleJsonRaises(frame, TRUE)              \* line 272 raises
              \/ frame = "bytes"                            \* line 276 raises
           /\ receiver' = ReceiverAfter("Exception")
           /\ gather_exc' = IF receiver' = "running" THEN gather_exc
                             ELSE GatherException(gather_exc, receiver')
           /\ UNCHANGED <<queue, buffer_done>>
        \/ /\ frame # "closed"
           /\ \E put \in Puts(frame) :
                /\ Len(queue) + Len(put) <= MaxQueue
                /\ queue' = queue \o put
           /\ buffer_done' = (buffer_done \/ frame = "stop")  \* lines 232-233
           /\ UNCHANGED <<receiver, gather_exc>>

\* ---- the sender loop

queue_get_newest(q) == [item |-> q[Len(q)], rest |-> SubSeq(q, 1, Len(q) - 1)]

\* Line 289, buffer.queue.get() of an asyncio.Queue: the item that has
\* waited longest, and the queue without it.
queue_get(q) == [item |-> Head(q), rest |-> Tail(q)]

\* The command prefix is looked at before the conversation of the item.
RouteByText(item, current) ==
    CASE item.type = "str" -> "send"
      [] startswith(item.msg, "/") -> "command"
      [] item.chat_room_id # current -> "change_context"
      [] OTHER -> "chat"

\* Lines 298-318: where an item goes.
Route(item, current) ==
    CASE item.type = "str" -> "send"
      [] item.chat_room_id # current -> "change_context"
      [] startswith(item.msg, "/") -> "command"
      [] OTHER -> "chat"

MemoAlways(item, route, memo) == item.msg

\* buffer.last_user_message after the item: line 309 for a chat message,
\* lines 240-241 for a command.
Memo(item, route, memo) ==
    CASE route = "chat" -> item.msg
      [] route = "command" /\ ~startswith(item.msg, "/retry") -> item.msg
      [] OTHER -> memo

\* MessageHandler.user, MessageHandler.ai and command_handler: the turns an
\* item records before it ends with outcome.  The user turn of a chat
\* message is recorded first; a too-long message is refused before it is
\* recorded; the retry command pops the previous ai turn and generates
\* again; the ai turn is recorded when the generation succeeds.
Turns(hc, item, route, outcome) ==
    CASE route = "chat" ->
           IF outcome = "ChatTooMuchTokenException"
           THEN [hc |-> hc, recorded |-> 0, log |-> <<>>]
           ELSE LET u == FreshUuid(hc)
                    with_user == Added(hc, "user", item.msg, u)
                IN [hc |-> IF outcome = "ok"
                           THEN Added(with_user, "ai", "reply", FreshUuid(with_user))
                           ELSE with_user,
                    recorded |-> u,
                    log |-> IF outcome = "ok" THEN <<"user", "ai">> ELSE <<"user">>]
      [] route = "command" /\ startswith(item.msg, "/retry") ->
           LET popped == PoppedLast(hc, "ai")
           IN [hc |-> IF outcome = "ok"
                      THEN Added(popped, "ai", "reply", FreshUuid(popped))
                      ELSE popped,
               recorded |-> 0,
               log |-> IF outcome = "ok" THEN <<"ai">> ELSE <<>>]
      [] OTHER -> [hc |-> hc, recorded |-> 0, log |-> <<>>]

HandledNothing(hc, chat_exception, content) == hc

\* _chat_exception_handler, the history it leaves.
HandledHistories(hc, chat_exception, content) ==
    CASE chat_exception = "ChatTextGenerationException" -> PoppedLast(hc, "user")
      [] chat_exception = "ChatStreamingInterruptedException" ->
           Added(hc, "ai", content, FreshUuid(hc))
      [] OTHER -> hc

\* _chat_exception_handler, the frame it sends.
HandledFrame(chat_exception) ==
    CASE chat_exception = "ChatTextGenerationException" -> "error_finish"
      [] chat_exception = "ChatGeneralInterruptedException" -> "finish"
      [] chat_exception \in {"ChatOtherException", "ChatTooMuchTokenException"} -> "msg"
      [] OTHER -> "none"

\* The outcomes a route can have.
RouteOutcomes(route) ==
    CASE route = "send" -> {"ok", "Exception"}
      [] route = "change_context" -> {"ok", "Exception"}
      [] route = "command" -> DispatchOutcomes \ {"ChatTooMuchTokenException"}
      [] OTHER -> DispatchOutcomes

\* One iteration of _websocket_sender from the return of queue.get() to the
\* next queue.get(), with no background task in flight (the harvest passes
\* of the iteration then change nothing).
SenderDispatch ==
    /\ sender = "running"
    /\ queue # <<>>
    /\ task_list = <<>>
    /\ LET item == queue_get(queue).item
           route == Route(item, current_chat_room_id)
       IN \E outcome \in RouteOutcomes(route) :
          LET switch == route = "change_context" /\ outcome = "ok"
              here == IF switch
                      THEN stored
                      ELSE [histories |-> histories, cache |-> cache]
              turns == Turns(here, item, route, outcome)
              after == IF outcome \in ChatExceptions
                       THEN HandledHistories(turns.hc, outcome, "interrupted")
                       ELSE turns.hc
          IN  /\ SumLen(after.histories) + SumLen(stored.histories) <= MaxEntries
              /\ queue' = queue_get(queue).rest
              /\ last_user_message' = Memo(item, route, last_user_message)
              /\ histories' = after.histories
              /\ cache' = after.cache
              /\ stored' = IF switch
                           THEN [histories |-> histories, cache |-> cache]
                           ELSE stored
              /\ current_chat_room_id' = IF switch THEN item.chat_room_id
                                         ELSE current_chat_room_id
              /\ chat_rooms' = IF switch THEN chat_rooms \cup {item.chat_room_id}
                               ELSE chat_rooms
              /\ sender' = IF outcome = "Exception" THEN "Exception" ELSE "running"
              /\ gather_exc' = IF outcome = "Exception"
                               THEN GatherException(gather_exc, "Exception")
                               ELSE gather_exc
              /\ last_item' = [route |-> route,
                               outcome |-> outcome, recorded |-> turns.recorded # 0,
                               turns |-> turns.log,
                               frame |-> CASE outcome \in ChatExceptions ->
                                                HandledFrame(outcome)
                                           [] switch -> "init"  \* lines 191, 199
                                           [] OTHER -> "none"]
    /\ UNCHANGED <<cacheVars, intrVars, taskVars>>
    /\ UNCHANGED <<last_op, receiver, chat, error_frames>>

\* ---- begin_chat

TransportClosedNever(e) == FALSE

\* Line 347: isinstance(e, RuntimeError) and "receive" in str(e).
TransportClosed(e) == e = "RuntimeError_receive"

\* asyncio.gather without return_exceptions: the exception of a child goes
\* to the awaiting task; the other child is left running.
GatherPeer(loop) == loop

\* begin_chat resumes from asyncio.gather with the first exception of its
\* two loops; lines 346-355.
JoinFails ==
    /\ chat = "joined"
    /\ gather_exc # "none"
    /\ receiver' = GatherPeer(receiver)
    /\ sender' = GatherPeer(sender)
    /\ IF TransportClosed(gather_exc)
       THEN /\ chat' = "returned"
            /\ error_frames' = error_frames
       ELSE /\ chat' = "raised"
            /\ error_frames' = error_frames + 1
    /\ UNCHANGED <<cacheVars, intrVars, histVars, taskVars>>
    /\ UNCHANGED <<queue, last_user_message, current_chat_room_id, chat_rooms,
                   stored, gather_exc>>
    /\ last_item' = NoItem

NextChat ==
    \/ ReceiveFrame
    \/ SenderDispatch
    \/ JoinFails

\* No harvest pass in progress.  skipped_room, skipped_entry: the loop of
\* lines 58-86 left a result at lines 63-64, at lines 72-73.
NoHarvest == [pc |-> "idle", harvested_tasks |-> {}, update_tasks |-> {},
              skipped_room |-> FALSE, skipped_entry |-> FALSE, at_start |-> <<>>]

(***************************************************************************)
(* Part 5.  _harvest_done_tasks: the results of the background             *)
(* summarization tasks are written into the histories.                     *)
(***************************************************************************)

\* Most tasks in buffer.task_list.
MaxTasks == 2

\* The roles whose entries are summarized.
TaskRoles == {"user", "ai"}

\* SummarizedResult.content.
SummaryContent == "a"

\* How a background task ends: with a SummarizedResult, with a result of
\* another type, with an exception, or cancelled.
TaskEndings == {"result", "other", "raised", "cancelled"}

\* A summarization task for the entry uuid of a role of a conversation.
Task(chat_room_id, role, uuid) ==
    [chat_room_id |-> chat_room_id, role |-> role, uuid |-> uuid, state |-> "pending"]

\* harvest_obs describes the harvest pass that has just ended; any other
\* step sets it back to NoHarvestObs.  skipped_room, skipped_entry: the pass
\* skipped a result at lines 63-64, at lines 72-73; failed: the updates of
\* the pass that raised; removed: how many tasks left the list at lines
\* 103-105; added_in_pass, completed_in_pass: a task was added to the list,
\* a task of the list completed, while the pass was suspended.
NoHarvestObs == [skipped_room |-> FALSE, skipped_entry |-> FALSE, failed |-> {},
                 removed |-> 0, added_in_pass |-> FALSE, completed_in_pass |-> FALSE]

\* The context of a conversation held by the buffer.
ContextOf(chat_room_id) ==
    IF chat_room_id = current_chat_room_id
    THEN [histories |-> histories, cache |-> cache]
    ELSE stored

\* buffer.find_index_of_chatroom: None for a conversation not in the buffer.
find_index_of_chatroom(chat_room_id) ==
    IF chat_room_id \in chat_rooms THEN chat_room_id ELSE NoInt

\* buffer.find_index_of_message_history: the index of the entry of the role
\* history that carries the uuid, None if there is none.
find_index_of_message_history(user_chat_context, role, message_history_uuid) ==
    LET h == user_chat_context.histories[role]
        found == {i \in 1..Len(h) : h[i].uuid = message_history_uuid}
    IN IF found = {} THEN NoInt
       ELSE (CHOOSE i \in found : \A j \in found : i <= j) - 1

\* Line 54: task.done() and not task.cancelled().
HarvestableDone(task) == task.state # "pending"

\* Line 54: task.done() and not task.cancelled().
Harvestable(task) == task.state \in {"result", "other", "raised"}

\* Lines 60-82 for one harvested task: the update it contributes, if any.
UpdateOf(task) ==
    IF task.state # "result"
    THEN {}                              \* task.result() raises, or line 61
    ELSE IF find_index_of_chatroom(task.chat_room_id) = NoInt
    THEN {}                                             \* lines 63-64
    ELSE LET index == find_index_of_message_history(ContextOf(task.chat_room_id),
                                                    task.role, task.uuid)
         IN IF index = NoInt
            THEN {}                                     \* lines 72-73
            ELSE {[chat_room_id |-> task.chat_room_id, role |-> task.role,
                   index |-> index]}

\* MessageManager.set_message_history_safely(user_chat_context,
\* summarized_content, index, role) on the histories of a context.
\* raises: CacheManager.set_message_history raised, after the entry in
\* memory was changed.
SetSummary(hc, role, index, summarized_content, raises) ==
    LET pos == PyIndex(index, Len(hc.histories[role]))
    IN IF pos = 0
       THEN hc
       ELSE LET changed == Updated(hc.histories[role][pos], None, summarized_content)
            IN [histories |-> [hc.histories EXCEPT ![role][pos] = changed],
                cache |-> IF raises
                          THEN hc.cache
                          ELSE CacheManager_set_message_history(hc.cache, role,
                                                                changed, index)]

\* The first update that raises ends the pass for all of them.
RECURSIVE RunUpdatesUntilOneFails(_, _, _, _)
RunUpdatesUntilOneFails(hc, chat_room_id, update_tasks, failed) ==
    IF update_tasks = {} \/ failed # {}
    THEN hc
    ELSE LET u == CHOOSE x \in update_tasks : TRUE
             next == IF u.chat_room_id = chat_room_id
                     THEN SetSummary(hc, u.role, u.index, SummaryContent, FALSE)
                     ELSE hc
         IN RunUpdatesUntilOneFails(next, chat_room_id, update_tasks \ {u}, failed)

\* Line 92, asyncio.gather(*update_tasks, return_exceptions=True): every
\* update runs on its context, those of failed raise.
RECURSIVE RunUpdates(_, _, _, _)
RunUpdates(hc, chat_room_id, update_tasks, failed) ==
    IF update_tasks = {}
    THEN hc
    ELSE LET u == CHOOSE x \in update_tasks : TRUE
             next == IF u.chat_room_id = chat_room_id
                     THEN SetSummary(hc, u.role, u.index, SummaryContent,
                                     u \in failed)
                     ELSE hc
         IN RunUpdates(next, chat_room_id, update_tasks \ {u}, failed)

RemainingAll(tasks, harvested) == tasks

\* Lines 103-105: the tasks that were not harvested stay in the list.
RECURSIVE Remaining(_, _)
Remaining(tasks, harvested) ==
    IF tasks = <<>>
    THEN <<>>
    ELSE LET n == Len(tasks)
             front == Remaining(SubSeq(tasks, 1, n - 1), harvested)
         IN IF n \in harvested THEN front ELSE Append(front, tasks[n])

\* ---- what the sender does between two harvest passes

\* A turn is recorded in the current conversation; for a long turn a
\* summarization task is started.
RecordTurn ==
    /\ UNCHANGED <<cacheVars, intrVars>>
    /\ UNCHANGED <<last_op, queue, last_user_message, current_chat_room_id, chat_rooms,
                   stored, receiver, sender, gather_exc, chat, error_frames, last_item>>
    /\ UNCHANGED harvest
    /\ harvest_obs' = NoHarvestObs
    /\ harvest.pc = "idle"
    /\ SumLen(histories) + SumLen(stored.histories) < MaxEntries
    /\ \E role \in TaskRoles, summarize \in BOOLEAN :
        LET here == [histories |-> histories, cache |-> cache]
            uuid == FreshUuid(here)
            after == Added(here, role, "bb", uuid)
        IN  /\ histories' = after.histories
            /\ cache' = after.cache
            /\ IF summarize
               THEN /\ Len(task_list) < MaxTasks
                    /\ task_list' = Append(task_list,
                                           Task(current_chat_room_id, role, uuid))
               ELSE task_list' = task_list

\* The last turn of a role is removed from the current conversation.
RemoveTurn ==
    /\ UNCHANGED <<cacheVars, intrVars, task_list, harvest>>
    /\ harvest_obs' = NoHarvestObs
    /\ UNCHANGED <<last_op, queue, last_user_message, current_chat_room_id, chat_rooms,
                   stored, receiver, sender, gather_exc, chat, error_frames, last_item>>
    /\ harvest.pc = "idle"
    /\ \E role \in TaskRoles :
        /\ histories[role] # <<>>
        /\ LET after == PoppedLast([histories |-> histories, cache |-> cache], role)
           IN  /\ histories' = after.histories
               /\ cache' = after.cache

\* _change_context: the other conversation becomes the current one; a
\* conversation that is not in the buffer is created empty.
change_context ==
    /\ UNCHANGED <<cacheVars, intrVars, task_list, harvest>>
    /\ harvest_obs' = NoHarvestObs
    /\ UNCHANGED <<last_op, queue, last_user_message, receiver, sender, gather_exc,
                   chat, error_frames, last_item>>
    /\ harvest.pc = "idle"
    /\ \E changed_chat_room_id \in ChatRoomIds \ {current_chat_room_id} :
        /\ current_chat_room_id' = changed_chat_room_id
        /\ chat_rooms' = chat_rooms \cup {changed_chat_room_id}
        /\ histories' = stored.histories
        /\ cache' = stored.cache
        /\ stored' = [histories |-> histories, cache |-> cache]

\* The user deletes the conversation that is not the current one.
DeleteChatRoom ==
    /\ UNCHANGED <<cacheVars, intrVars, histVars, task_list, harvest>>
    /\ harvest_obs' = NoHarvestObs
    /\ UNCHANGED <<queue, last_user_message, current_chat_room_id, receiver, sender,
                   gather_exc, chat, error_frames, last_item>>
    /\ harvest.pc = "idle"
    /\ \E chat_room_id \in chat_rooms \ {current_chat_room_id} :
        /\ chat_rooms' = chat_rooms \ {chat_room_id}
        /\ stored' = NoStored

\* A background task ends, at any moment.
TaskEnds ==
    /\ UNCHANGED <<cacheVars, intrVars, histVars, sessVars>>
    /\ UNCHANGED harvest
    /\ harvest_obs' = NoHarvestObs
    /\ \E k \in 1..Len(task_list), ending \in TaskEndings :
        /\ task_list[k].state = "pending"
        /\ task_list' = [task_list EXCEPT ![k].state = ending]

\* ---- a harvest pass

\* Lines 53-82: the done tasks are picked and the updates are collected.
harvest_done_tasks_collect ==
    /\ UNCHANGED <<cacheVars, intrVars, histVars, sessVars>>
    /\ UNCHANGED task_list
    /\ harvest_obs' = NoHarvestObs
    /\ harvest.pc = "idle"
    /\ LET harvested_tasks == {k \in 1..Len(task_list) : Harvestable(task_list[k])}
           results == {k \in harvested_tasks : task_list[k].state = "result"}
       IN harvest' = [pc |-> "updating",
                      harvested_tasks |-> harvested_tasks,
                      update_tasks |-> UNION {UpdateOf(task_list[k]) :
                                              k \in harvested_tasks},
                      skipped_room |-> \E k \in results :
                          find_index_of_chatroom(task_list[k].chat_room_id) = NoInt,
                      skipped_entry |-> \E k \in results :
                          /\ find_index_of_chatroom(task_list[k].chat_room_id) # NoInt
                          /\ UpdateOf(task_list[k]) = {},
                      at_start |-> task_list]

\* Lines 88-105: the updates run and the harvested tasks leave the list.
harvest_done_tasks_update ==
    /\ UNCHANGED <<cacheVars, intrVars, last_op>>
    /\ UNCHANGED <<queue, last_user_message, current_chat_room_id, chat_rooms,
                   receiver, sender, gather_exc, chat, error_frames, last_item>>
    /\ harvest.pc = "updating"
    /\ \E failed \in SUBSET harvest.update_tasks :
       LET here == RunUpdates([histories |-> histories, cache |-> cache],
                              current_chat_room_id, harvest.update_tasks, failed)
           other == RunUpdates(stored, 3 - current_chat_room_id, harvest.update_tasks,
                               failed)
       IN  /\ histories' = here.histories
           /\ cache' = here.cache
           /\ stored' = other
           /\ task_list' = Remaining(task_list, harvest.harvested_tasks)
           /\ harvest' = NoHarvest
           /\ harvest_obs' =
                [skipped_room |-> harvest.skipped_room,
                 skipped_entry |-> harvest.skipped_entry,
                 failed |-> failed,
                 removed |-> Len(task_list) - Len(task_list'),
                 added_in_pass |-> Len(task_list) > Len(harvest.at_start),
                 completed_in_pass |->
                     \E k \in 1..Len(harvest.at_start) :
                         /\ harvest.at_start[k].state = "pending"
                         /\ task_list[k].state \notin {"pending", "cancelled"}]

\* ---- another task of the session

\* Lines 66, 67-71 and 92 are awaits: between the lookup of an index and
\* the write the event loop runs the other tasks that hold the buffer, such
\* as a command future that _interruption_event_watcher cancelled and did
\* not await (lines 171-172).  Such a task removes the last turn of a role
\* or records a turn, starting a summarization task for a long one, while
\* the harvest pass is suspended.
OtherTaskTurn ==
    /\ UNCHANGED <<cacheVars, intrVars>>
    /\ UNCHANGED <<last_op, queue, last_user_message, current_chat_room_id, chat_rooms,
                   stored, receiver, sender, gather_exc, chat, error_frames, last_item>>
    /\ UNCHANGED harvest
    /\ harvest_obs' = NoHarvestObs
    /\ harvest.pc = "updating"
    /\ \E role \in TaskRoles :
        LET here == [histories |-> histories, cache |-> cache]
        IN \/ /\ histories[role] # <<>>
              /\ histories' = PoppedLast(here, role).histories
              /\ cache' = PoppedLast(here, role).cache
              /\ task_list' = task_list
           \/ /\ SumLen(histories) + SumLen(stored.histories) < MaxEntries
              /\ histories' = Added(here, role, "bb", FreshUuid(here)).histories
              /\ cache' = Added(here, role, "bb", FreshUuid(here)).cache
              /\ \E summarize \in BOOLEAN :
                    IF summarize
                    THEN /\ Len(task_list) < MaxTasks
                         /\ task_list' = Append(task_list,
                                                Task(current_chat_room_id, role,
                                                     FreshUuid(here)))
                    ELSE task_list' = task_list

NextHarvest ==
    \/ RecordTurn
    \/ RemoveTurn
    \/ change_context
    \/ DeleteChatRoom
    \/ TaskEnds
    \/ harvest_done_tasks_collect
    \/ harvest_done_tasks_update

\* The harvest passes of one conversation with another task at work.
NextRace ==
    \/ RecordTurn
    \/ RemoveTurn
    \/ TaskEnds
    \/ harvest_done_tasks_collect
    \/ harvest_done_tasks_update
    \/ OtherTaskTurn

(***************************************************************************)
(* The specifications.                                                     *)
(***************************************************************************)

\* The process after the import of app/routers/v1.py, with a session whose
\* buffer has just been built and a conversation without entries.
Init ==
    /\ completion_generators = <<>>      \* deque(maxlen=1)
    /\ embedding_generators = <<>>
    /\ semaphore = 1                      \* anyio.create_semaphore(1)
    /\ imported \in {Modules, Modules \ {"exllama", "sentence_encoder"}}
    /\ req = [r \in Requests |-> IdleReq]
    /\ last_resolve = NoResolve
    /\ killed = FALSE
    /\ buffer_done = FALSE                \* asyncio.Event(), clear
    /\ is_stream_in_progress = FALSE
    /\ ready = <<>>
    /\ future = "none"
    /\ monitoring = "none"
    /\ caller = "idle"
    /\ waiter_done = FALSE
    /\ obs = NoObs
    /\ histories = [r \in Roles |-> <<>>]
    /\ cache = [r \in Roles |-> <<>>]
    /\ last_op = NoOp
    /\ queue = <<>>
    /\ last_user_message = ""
    /\ current_chat_room_id = 1
    /\ chat_rooms = {1}                  \* _initialize_callback, lines 38-40
    /\ stored = NoStored
    /\ receiver = "running"
    /\ sender = "running"
    /\ gather_exc = "none"
    /\ chat = "joined"                    \* begin_chat awaits asyncio.gather
    /\ error_frames = 0
    /\ last_item = NoItem
    /\ task_list = <<>>
    /\ harvest = NoHarvest
    /\ harvest_obs = NoHarvestObs

\* The same state for the specifications of a session, which runs in a
\* process that has imported every backend.
InitSession ==
    /\ completion_generators = <<>>      \* deque(maxlen=1)
    /\ embedding_generators = <<>>
    /\ semaphore = 1                      \* anyio.create_semaphore(1)
    /\ imported = Modules
    /\ req = [r \in Requests |-> IdleReq]
    /\ last_resolve = NoResolve
    /\ killed = FALSE
    /\ buffer_done = FALSE                \* asyncio.Event(), clear
    /\ is_stream_in_progress = FALSE
    /\ ready = <<>>
    /\ future = "none"
    /\ monitoring = "none"
    /\ caller = "idle"
    /\ waiter_done = FALSE
    /\ obs = NoObs
    /\ histories = [r \in Roles |-> <<>>]
    /\ cache = [r \in Roles |-> <<>>]
    /\ last_op = NoOp
    /\ queue = <<>>
    /\ last_user_message = ""
    /\ current_chat_room_id = 1
    /\ chat_rooms = {1}                  \* _initialize_callback, lines 38-40
    /\ stored = NoStored
    /\ receiver = "running"
    /\ sender = "running"
    /\ gather_exc = "none"
    /\ chat = "joined"                    \* begin_chat awaits asyncio.gather
    /\ error_frames = 0
    /\ last_item = NoItem
    /\ task_list = <<>>
    /\ harvest = NoHarvest
    /\ harvest_obs = NoHarvestObs

\* Any sequence of resolve calls.
SpecResolve ==
    /\ Init
    /\ [][NextResolve]_vars

\* Concurrent requests to the three endpoints behind the admission gate.
SpecGate ==
    /\ Init
    /\ [][NextGate]_vars

\* The same with the scheduling the code gives: a handler that can take its
\* next step takes it (the event loop runs every ready task, a generation
\* ends), the framework runs the exit of the dependency, and the waiters of
\* the anyio semaphore are served in the order they came, so that no waiter
\* is passed over for ever.  Nothing obliges a client to send a request.
SpecGateFair ==
    /\ Init
    /\ [][NextGate]_vars
    /\ \A r \in Requests :
        /\ SF_vars(Acquire(r))
        /\ []<>(req[r].pc # "acquired")     \* the resolve call ends
        /\ WF_vars(\/ GenerateFinish(r)
                   \/ StreamStart(r) \/ StreamEnd(r)
                   \/ Release(r))

\* Commands run through _interruption_event_watcher on one event loop.
SpecIntr ==
    /\ Init
    /\ [][NextIntr]_vars

\* Any sequence of MessageManager calls on one conversation.
SpecHist ==
    /\ Init
    /\ [][NextHist]_vars

\* The two loops of one session and begin_chat joining them.
SpecChat ==
    /\ InitSession
    /\ [][NextChat]_vars

\* The harvest passes of a session among the turns, the context changes and
\* the background tasks.
SpecHarvest ==
    /\ InitSession
    /\ [][NextHarvest]_vars

\* The harvest passes of a session whose buffer is also used by a task
\* that runs while a pass is suspended.
SpecRace ==
    /\ InitSession
    /\ [][NextRace]_vars

(***************************************************************************)
(* The claims.                                                             *)
(***************************************************************************)

Constructs(events) ==
    Cardinality({i \in 1..Len(events) : events[i].ev = "construct"})

OwnCache(kind) ==
    IF kind = "completion" THEN completion_generators ELSE embedding_generators

\* C1 (SpecResolve): between any two resolve calls each of the two caches
\* holds at most one resident handle.
C1_Capacity ==
    /\ Len(completion_generators) <= 1
    /\ Len(embedding_generators) <= 1

\* C1 witness: both kinds are resident and the last call replaced a resident
\* handle of its own kind that no eviction step had freed.
C1_Witness ==
    /\ Len(completion_generators) = 1
    /\ Len(embedding_generators) = 1
    /\ \E i \in 1..Len(last_resolve.events) : last_resolve.events[i].ev = "drop"

\* C2 (SpecResolve): a resolve call for an identity that is resident in the
\* cache of its kind returns that resident handle, constructs and evicts
\* nothing and leaves both caches as they were; and of two back-to-back
\* resolves of one embedding identity only the first can construct.
C2_IdentityHit ==
    [][ LET kind == last_resolve'.kind
            own == OwnCache(kind)
            at == {i \in 1..Len(own) : own[i].name = last_resolve'.name}
        IN  /\ (kind # "none" /\ at # {}) =>
                  /\ last_resolve'.outcome = "ok"
                  /\ last_resolve'.handle \in {own[i] : i \in at}
                  /\ last_resolve'.events = <<>>
                  /\ completion_generators' = completion_generators
                  /\ embedding_generators' = embedding_generators
            /\ (/\ kind = "embedding"
                /\ last_resolve.kind = "embedding"
                /\ last_resolve.outcome = "ok"
                /\ last_resolve.name = last_resolve'.name) =>
                  Constructs(last_resolve.events) + Constructs(last_resolve'.events)
                      = IF last_resolve.path = "hit" THEN 0 ELSE 1
      ]_vars

\* C2 witness: an embedding identity was resolved from the cache while a
\* generation handle was resident.
C2_Witness ==
    /\ last_resolve.kind = "embedding"
    /\ last_resolve.path = "hit"
    /\ completion_generators # <<>>
    /\ embedding_generators # <<>>

\* C3 (SpecResolve): when a resolve of kind A misses while a handle of the
\* other kind is resident and the cross-kind step reads free memory below its
\* threshold, that handle is evicted, and before any construction starts.
C3_CrossKindPrecedence ==
    (/\ last_resolve.path = "miss"
     /\ last_resolve.other_before
     /\ last_resolve.cross_read < CrossMinFree(last_resolve.kind))
    => \E i \in 1..Len(last_resolve.events) :
          /\ last_resolve.events[i].ev = "evict"
          /\ last_resolve.events[i].kind = Other(last_resolve.kind)
          /\ \A j \in 1..Len(last_resolve.events) :
                last_resolve.events[j].ev = "construct" => i < j

\* C3 witness: an embedding resolve evicted the resident generation handle
\* and then constructed its own.
C3_Witness ==
    /\ last_resolve.kind = "embedding"
    /\ last_resolve.path = "miss"
    /\ last_resolve.other_before
    /\ last_resolve.cross_read < CrossMinFree("embedding")
    /\ Constructs(last_resolve.events) = 1
    /\ completion_generators = <<>>

\* C4 (SpecGate): at most one request at a time is between acquiring the
\* gate and the end of its cache resolution.
C4_GateMutex ==
    Cardinality({r \in Requests : req[r].pc = "acquired"}) <= 1

\* C4 witness: one request holds the gate before its resolution while another
\* one waits for the gate.
C4_Witness ==
    \E r, q \in Requests :
        /\ req[r].pc = "acquired"
        /\ req[q].pc = "waiting"
        /\ semaphore = 0

Over == caller \in {"returned", "raised"}

\* C5 as claimed (SpecIntr): a call during which the hold signal was never set
\* and whose work completed with the interrupt signal already set does not
\* return the work's result.
C5_AsClaimed ==
    (Over /\ obs.hold_never /\ obs.signal_before_work_done) => caller = "raised"

\* C5 amended (SpecIntr): when the work has not completed by the time the
\* first-completed join returns, the call raises Interrupted and has issued
\* a cancellation to the work; it does not return the work's result.
C5_InterruptedWhenWorkPending ==
    (Over /\ ~obs.work_done_at_return) =>
        /\ caller = "raised"
        /\ future = "cancel_requested"

\* C5 witness: the interrupt signal fired with the hold signal clear while
\* the work was pending, and the call raised.
C5_Witness ==
    /\ caller = "raised"
    /\ obs.hold_never
    /\ ~obs.work_done_at_return
    /\ future = "cancel_requested"

\* C6 (SpecIntr): if the hold signal is set during the whole call the watcher
\* never completes and the call ends by returning the work's result.
C6_HeldNeverInterrupted ==
    /\ (caller = "waiting" /\ obs.hold_throughout) => monitoring # "finished"
    /\ (Over /\ obs.hold_throughout) => caller = "returned"

\* C6 witness: the call returned the work's result with the hold signal set
\* throughout and the interrupt signal set.
C6_Witness ==
    /\ caller = "returned"
    /\ obs.hold_throughout
    /\ buffer_done

\* C7 (SpecIntr): at the moment the call raises Interrupted the interrupt
\* signal is clear.
C7_ClearOnInterrupt ==
    [][ (caller = "waiting" /\ caller' = "raised") => ~buffer_done' ]_vars

\* C7 witness: the call has raised Interrupted and the signal is clear.
C7_Witness ==
    /\ caller = "raised"
    /\ ~buffer_done

\* C8 as claimed (SpecIntr): if the work completes before the watcher does,
\* the call returns the work's result, also when both are done by the time
\* the join returns.
C8_AsClaimed ==
    (Over /\ obs.first_done = "work") => caller = "returned"

\* C9 (SpecHist): on a history empty beforehand, an append followed by a pop of
\* one entry from the end returns the appended entry, leaves the history
\* empty and the durable mirror equal to it, and leaves the other roles alone.
C9_AppendPopInverse ==
    [][ (/\ last_op.op = "add"
         /\ last_op.empty_before
         /\ last_op'.op = "pop"
         /\ last_op'.role = last_op.role
         /\ last_op'.single
         /\ last_op'.rpop)
        => LET role == last_op.role
           IN  /\ last_op'.result = [kind |-> "one", items |-> histories[role]]
               /\ Len(histories[role]) = 1
               /\ histories'[role] = <<>>
               /\ cache'[role] = histories'[role]
               /\ \A other \in Roles \ {role} :
                     /\ histories'[other] = histories[other]
                     /\ cache'[other] = cache[other]
      ]_vars

\* C9 witness: the entry appended to an empty history has been popped again
\* by the next call while another role holds an entry.
C9_Witness ==
    /\ last_op.op = "pop"
    /\ last_op.after_add
    /\ last_op.single /\ last_op.rpop
    /\ last_op.result.kind = "one"
    /\ histories[last_op.role] = <<>>
    /\ cache[last_op.role] = <<>>
    /\ \E other \in Roles \ {last_op.role} : histories[other] # <<>>

\* C10 (SpecHist): a set with an index at or beyond the length of the
\* addressed history returns None and changes neither a history nor the
\* durable store.
C10_SetBeyondIsNoOp ==
    [][ (last_op'.op = "set" /\ last_op'.beyond)
        => /\ last_op'.result = NoResult
           /\ histories' = histories
           /\ cache' = cache
      ]_vars

\* C10 witness: a set addressed an index beyond a non-empty history.
C10_Witness ==
    /\ last_op.op = "set"
    /\ last_op.beyond
    /\ histories[last_op.role] # <<>>

\* C19 as claimed (SpecHist): after any sequence of add and set calls every
\* entry's tokens equal the token count of its content plus the margin.
C19_AsClaimed ==
    \A role \in Roles : \A i \in 1..Len(histories[role]) :
        histories[role][i].tokens
            = get_tokens_of(histories[role][i].content) + token_margin

\* C20 as claimed (SpecHist): no two entries of one role's history carry the
\* same uuid.
C20_AsClaimed ==
    \A role \in Roles : \A i, j \in 1..Len(histories[role]) :
        histories[role][i].uuid = histories[role][j].uuid => i = j

\* C15 (SpecGate): when the resolve call of a request ends, an identity that
\* is no member of LLMModels or of no implemented class, and a construction
\* that raised an ordinary exception, give an AssertionError and a 400 and
\* leave the process running; an OSError or MemoryError of the construction
\* leaves the resolve unchanged and gives a 500 and the kill signal.
C15_ErrorClassification ==
    [][ \A r \in Requests :
          (req[r].pc = "acquired" /\ req'[r].pc # "acquired") =>
             /\ (req'[r].unknown \/ req'[r].ctor_raised = "Exception") =>
                   /\ req'[r].raised = "AssertionError"
                   /\ req'[r].response = "400"
                   /\ killed' = killed
             /\ req'[r].ctor_raised \in {"OSError", "MemoryError"} =>
                   /\ req'[r].raised = req'[r].ctor_raised
                   /\ req'[r].response = "500"
                   /\ killed'
      ]_vars

\* C15 witness: one request was answered 400 for an unknown identity and the
\* process kept serving; a later one ended in a MemoryError of the
\* construction, a 500 and the kill signal.
C15_Witness ==
    \E r, q \in Requests :
        /\ req[q].unknown
        /\ req[q].response = "400"
        /\ req[r].ctor_raised = "MemoryError"
        /\ req[r].raised = "MemoryError"
        /\ req[r].response = "500"
        /\ killed

\* C18 as claimed (SpecIntr): a command running in the coordinator is not
\* interrupted while the hold signal is set: whenever the call raises
\* Interrupted, the hold signal is clear.
C18_AsClaimed ==
    [][ (caller = "waiting" /\ caller' = "raised") => ~is_stream_in_progress' ]_vars

C12_AsClaimed ==
    chat # "joined" => ((receiver = "running") <=> (sender = "running"))

\* C13 (SpecChat), as claimed.  The receiver loop ends only with the failure
\* of websocket.receive() on a closed connection.
C13_AsClaimed ==
    receiver \in {"running", "RuntimeError_receive"}

\* C16 (SpecChat), as claimed.  When the processing of a queue item ends with
\* ChatTextGenerationException, an error frame with finish=True is sent, the
\* sender keeps running, and the user history is what it was before the
\* item, the user turn the item recorded being removed and no other one.
C16_AsClaimed ==
    [][ (/\ queue # <<>>
         /\ queue' = Tail(queue)
         /\ last_item'.outcome = "ChatTextGenerationException") =>
            /\ last_item'.frame = "error_finish"
            /\ sender' = "running"
            /\ histories'["user"] = histories["user"] ]_vars

\* C17 (SpecChat), as claimed.  Every dispatched item that is neither a retry
\* command nor a context switch sets last_user_message to its text; a retry
\* command and a context switch leave it unchanged.
C17_AsClaimed ==
    [][ (queue # <<>> /\ queue' = Tail(queue)) =>
          LET item == Head(queue)
              context_switch == /\ item.type = "MessageFromWebsocket"
                                /\ item.chat_room_id # current_chat_room_id
              retry == /\ item.type = "MessageFromWebsocket"
                       /\ ~context_switch
                       /\ startswith(item.msg, "/retry")
          IN IF retry \/ context_switch
             THEN last_user_message' = last_user_message
             ELSE last_user_message' = item.msg ]_vars

\* C17 (SpecChat), amended.  Every dispatched MessageFromWebsocket item that
\* is neither a retry command nor a context switch sets last_user_message to
\* its text, whatever the outcome of the item; a retry command, a context
\* switch and a str item (the text of a file upload) leave it unchanged.
C17_RetryMemo ==
    [][ (queue # <<>> /\ queue' = Tail(queue)) =>
          LET item == Head(queue)
              context_switch == /\ item.type = "MessageFromWebsocket"
                                /\ item.chat_room_id # current_chat_room_id
              retry == /\ item.type = "MessageFromWebsocket"
                       /\ ~context_switch
                       /\ startswith(item.msg, "/retry")
          IN IF retry \/ context_switch \/ item.type = "str"
             THEN last_user_message' = last_user_message
             ELSE last_user_message' = item.msg ]_vars

\* C17: the item dispatched last was a command and the memo is still the
\* chat text of an earlier item, so the command was the retry command.
C17_Witness ==
    /\ last_item.route = "command"
    /\ last_user_message = "hi"

\* C11 (SpecHarvest).  When a harvest pass ends, none of the tasks it
\* harvested is in task_list any more; and if for every harvested task the
\* target conversation is not in the buffer or no entry of the target role
\* history carries the target uuid, the pass has changed no history and no
\* mirror of any conversation.
C11_SilentSkip ==
    [][ (harvest.pc = "updating" /\ harvest'.pc = "idle") =>
          LET target(k) == IF task_list[k].chat_room_id = current_chat_room_id
                           THEN histories[task_list[k].role]
                           ELSE stored.histories[task_list[k].role]
              gone(k) == \/ task_list[k].chat_room_id \notin chat_rooms
                         \/ \A i \in 1..Len(target(k)) :
                               target(k)[i].uuid # task_list[k].uuid
          IN /\ \A k \in harvest.harvested_tasks :
                  \A j \in 1..Len(task_list') : task_list'[j].uuid # task_list[k].uuid
             /\ (\A k \in harvest.harvested_tasks : gone(k)) =>
                  /\ histories' = histories
                  /\ cache' = cache
                  /\ stored' = stored ]_vars

\* C11: harvest passes have skipped a result whose conversation had been
\* deleted and a result whose entry had been removed, and the tasks have
\* left the list.
C11_Witness ==
    /\ harvest_obs.skipped_room
    /\ harvest_obs.skipped_entry
    /\ harvest.pc = "idle"
    /\ task_list = <<>>

\* C21 (SpecGate), as claimed.  No request holds the admission gate while its
\* generation or embedding computation is running, streaming or not.
C21_AsClaimed ==
    \A r \in Requests : req[r].pc \in {"generating", "streaming"} => ~req[r].gate

\* C23 (SpecGate), as claimed.  While the generation or embedding computation
\* of a request is running, the handle it borrowed is resident in one of the
\* two caches: no resolve of another request has evicted it.
C23_AsClaimed ==
    \A r \in Requests :
        req[r].pc \in {"generating", "streaming"} =>
            \/ \E i \in 1..Len(completion_generators) :
                   completion_generators[i].id = req[r].handle
            \/ \E i \in 1..Len(embedding_generators) :
                   embedding_generators[i].id = req[r].handle

\* C24 (SpecResolve), as claimed.  In a resolve call of either kind an
\* eviction of the other kind's handle never comes after an eviction of the
\* requested kind's handle: the cross-kind step runs first.
C24_AsClaimed ==
    \A i, j \in 1..Len(last_resolve.events) :
        (/\ last_resolve.events[i].ev = "evict"
         /\ last_resolve.events[i].kind = last_resolve.kind
         /\ last_resolve.events[j].ev = "evict"
         /\ last_resolve.events[j].kind = Other(last_resolve.kind)) => j < i

C26_MirrorConsistency ==
    \A role \in Roles : cache[role] = histories[role]

\* C26: a pop from the front asked for more entries than the history held
\* and returned the one there was, an entry of another role carries a
\* summary written by a set, and the mirror equals the memory.
C26_Witness ==
    /\ last_op.op = "pop"
    /\ last_op.short
    /\ ~last_op.rpop
    /\ Len(last_op.result.items) = 1
    /\ \E role \in Roles : \E i \in 1..Len(histories[role]) :
          /\ histories[role][i].summarized # None
          /\ cache[role][i] = histories[role][i]

C29_ContextSwitchOnly ==
    [][ (/\ queue # <<>>
         /\ queue' = Tail(queue)
         /\ Head(queue).type = "MessageFromWebsocket"
         /\ Head(queue).chat_room_id # current_chat_room_id) =>
          LET item == Head(queue)
              was_absent == item.chat_room_id \notin chat_rooms
          IN /\ last_item'.route = "change_context"
             /\ ~last_item'.recorded
             /\ last_user_message' = last_user_message
             /\ IF last_item'.outcome = "ok"
                THEN /\ current_chat_room_id' = item.chat_room_id
                     /\ chat_rooms' = chat_rooms \cup {item.chat_room_id}
                     /\ last_item'.frame = "init"
                     /\ histories' = stored.histories
                     /\ cache' = stored.cache
                     /\ stored' = [histories |-> histories, cache |-> cache]
                     /\ was_absent => SumLen(histories') = 0
                ELSE /\ last_item'.outcome = "Exception"
                     /\ UNCHANGED <<current_chat_room_id, chat_rooms, histories,
                                    cache, stored>> ]_vars

\* C29: after a chat message in room 1 the item dispatched last changed the
\* context to room 2, which was created: room 2 is current and in the buffer
\* without entries, the turns of room 1 are kept, and last_user_message is
\* still the text of the chat message.
C29_Witness ==
    /\ last_item.route = "change_context"
    /\ last_item.outcome = "ok"
    /\ last_item.frame = "init"
    /\ current_chat_room_id = 2
    /\ chat_rooms = {1, 2}
    /\ SumLen(histories) = 0
    /\ SumLen(stored.histories) = 2
    /\ last_user_message = "hi"

\* C22 (SpecChat).  The queue is first in, first out: a step that lengthens
\* the queue puts one item behind the waiting ones, a step that shortens it
\* takes the item that has waited longest, and no step reorders it.  The
\* turns a step records are those of the item it took: an answered chat
\* message appends its user turn, carrying the text of the item, and then
\* its ai turn to the current conversation, and nothing else changes in any
\* history; a chat message that is not answered records at most its user
\* turn.
C22_TurnOrdering ==
    [][ /\ Len(queue') > Len(queue) =>
            /\ Len(queue') = Len(queue) + 1
            /\ SubSeq(queue', 1, Len(queue)) = queue
        /\ Len(queue') = Len(queue) => queue' = queue
        /\ Len(queue') < Len(queue) =>
            LET item == Head(queue)
                chat_item == /\ item.type = "MessageFromWebsocket"
                             /\ item.chat_room_id = current_chat_room_id
                             /\ ~startswith(item.msg, "/")
                n == Len(histories'["user"])
            IN /\ queue' = Tail(queue)
               /\ (last_item'.route = "chat") = chat_item
               /\ ~chat_item => last_item'.turns \in {<<>>, <<"ai">>}
               /\ chat_item =>
                    last_item'.turns \in {<<>>, <<"user">>, <<"user", "ai">>}
               /\ (chat_item /\ last_item'.outcome = "ok") =>
                    /\ last_item'.turns = <<"user", "ai">>
                    /\ n = Len(histories["user"]) + 1
                    /\ SubSeq(histories'["user"], 1, n - 1) = histories["user"]
                    /\ histories'["user"][n].content = item.msg
                    /\ Len(histories'["ai"]) = Len(histories["ai"]) + 1
                    /\ SubSeq(histories'["ai"], 1, Len(histories["ai"])) =
                          histories["ai"]
                    /\ histories'["system"] = histories["system"]
                    /\ stored' = stored ]_vars

\* C22: of two items that waited in the queue the one put first, a chat
\* message, was dispatched and answered: its user turn and its ai turn are
\* recorded, and the other item still waits.
C22_Witness ==
    /\ last_item.route = "chat"
    /\ last_item.outcome = "ok"
    /\ last_item.turns = <<"user", "ai">>
    /\ Len(queue) = 1
    /\ Head(queue).msg = "/retry"
    /\ Len(histories["user"]) = 1
    /\ histories["user"][1].content = "hi"
    /\ Len(histories["ai"]) = 1

\* C28 (SpecHarvest).  When a harvest pass ends, every task it harvested has
\* left task_list, whatever became of its result, and the tasks it did not
\* harvest are all still there; and every update of the pass that did not
\* raise has written its summary to the entry in memory and in the mirror,
\* whether or not another update of the pass raised.
C28_HarvestedLeave ==
    [][ (harvest.pc = "updating" /\ harvest'.pc = "idle") =>
          LET after(chat_room_id) ==
                  IF chat_room_id = current_chat_room_id
                  THEN [histories |-> histories', cache |-> cache']
                  ELSE stored'
          IN /\ \A k \in harvest.harvested_tasks :
                  \A j \in 1..Len(task_list') : task_list'[j].uuid # task_list[k].uuid
             /\ Len(task_list') = Len(task_list) - Cardinality(harvest.harvested_tasks)
             /\ \A k \in (1..Len(task_list)) \ harvest.harvested_tasks :
                  \E j \in 1..Len(task_list') : task_list'[j] = task_list[k]
             /\ harvest_obs'.failed \subseteq harvest.update_tasks
             /\ \A u \in harvest.update_tasks \ harvest_obs'.failed :
                  LET hc == after(u.chat_room_id)
                  IN /\ u.index + 1 <= Len(hc.histories[u.role])
                     /\ hc.histories[u.role][u.index + 1].summarized = SummaryContent
                     /\ hc.cache[u.role][u.index + 1].summarized = SummaryContent ]_vars

\* C28: the pass that has just ended ran two updates; one raised after it
\* had changed the entry in memory, the other one wrote its summary to the
\* memory and to the mirror, and both tasks have left the list.
C28_Witness ==
    /\ harvest.pc = "idle"
    /\ harvest_obs.failed # {}
    /\ task_list = <<>>
    /\ \E r1, r2 \in TaskRoles :
       \E i \in 1..Len(histories[r1]), j \in 1..Len(histories[r2]) :
          /\ histories[r1][i].summarized = SummaryContent
          /\ cache[r1][i].summarized = SummaryContent
          /\ histories[r2][j].summarized = SummaryContent
          /\ cache[r2][j].summarized # SummaryContent

\* C27 (SpecRace), as claimed.  Every entry whose summary a harvest pass
\* writes carries the uuid of a summarization result the pass harvested, in
\* the role and the conversation of that result, also when turns were
\* removed or recorded while the pass was suspended between the lookup of
\* the index and the write.
C27_AsClaimed ==
    [][ (harvest.pc = "updating" /\ harvest'.pc = "idle") =>
          LET named(chat_room_id, role, uuid) ==
                  \E k \in harvest.harvested_tasks :
                     /\ task_list[k].state = "result"
                     /\ task_list[k].chat_room_id = chat_room_id
                     /\ task_list[k].role = role
                     /\ task_list[k].uuid = uuid
              written(before, after_, i) ==
                  /\ i <= Len(before)
                  /\ after_[i].summarized # before[i].summarized
          IN \A role \in Roles :
               /\ \A i \in 1..Len(histories'[role]) :
                     written(histories[role], histories'[role], i) =>
                        named(current_chat_room_id, role, histories'[role][i].uuid)
               /\ \A i \in 1..Len(stored'.histories[role]) :
                     written(stored.histories[role], stored'.histories[role], i) =>
                        named(3 - current_chat_room_id, role,
                              stored'.histories[role][i].uuid) ]_vars

\* C31 (SpecResolve), as claimed.  The min_free_memory_mb a completion
\* resolve passes to its cross-kind eviction step is larger than the one an
\* embedding resolve passes to its cross-kind step, and likewise for the two
\* same-kind steps: whenever a miss of either kind has run its eviction
\* steps, the thresholds it used stand in that relation.
C31_AsClaimed ==
    (last_resolve.kind # "none" /\ last_resolve.path = "miss") =>
        /\ CrossMinFree("completion") > CrossMinFree("embedding")
        /\ SameMinFree("completion") > SameMinFree("embedding")

\* C34 (SpecResolve), as claimed.  A resolve call that fails has evicted
\* nothing: the handles of both kinds are the ones that were resident before
\* the call.
C34_AsClaimed ==
    last_resolve.outcome \notin {"none", "ok"} =>
        \A j \in 1..Len(last_resolve.events) : last_resolve.events[j].ev # "evict"

\* C35 (SpecGateFair).  The gate is released on every exit path of a request
\* that acquired it: every request that waits on the gate acquires it in the
\* end, and the gate is free again and again.
C35_GateNeverLeaked ==
    /\ \A r \in Requests : (req[r].pc = "waiting") ~> req[r].gate
    /\ []<>(semaphore = 1)

\* C35: the resolve call of a request raised, the request has left the
\* dependency, and the other request, which had to wait, holds the gate.
C35_Witness ==
    \E r, q \in Requests :
        /\ r # q
        /\ req[r].pc = "returned"
        /\ req[r].raised # "none"
        /\ ~req[r].gate
        /\ req[q].gate
        /\ semaphore = 0

\* C32 as claimed (SpecIntr): a call that starts with the interrupt signal
\* already set (a stop token latched before the command, none received during
\* it), with the hold signal clear, and whose work has not completed when the
\* watcher runs and finishes, fails with Interrupted.
C32_AsClaimed ==
    (/\ Over
     /\ obs.signal_at_start /\ ~obs.stop_in_call
     /\ obs.hold_never
     /\ obs.first_done = "monitor") => caller = "raised"

\* C32, first part (SpecIntr): the interrupt signal is cleared only by a call
\* that raises Interrupted, and a call that returns the work's result leaves
\* the signal as it was.
C32_ClearedOnlyOnRaise ==
    [][ /\ (buffer_done /\ ~buffer_done') => (caller = "waiting" /\ caller' = "raised")
        /\ (caller = "waiting" /\ caller' = "returned") => buffer_done' = buffer_done ]_vars

\* The tasks selected at the start of the pass that is about to end: the
\* positions whose task was done and not cancelled when the pass began.
C33_Selected ==
    {k \in 1..Len(harvest.at_start) :
        harvest.at_start[k].state \in {"result", "other", "raised"}}

\* C33 (SpecRace): when a harvest pass ends, the task list holds, in their
\* order, exactly the tasks that were in it at that moment and were not
\* selected at the start of the pass, so a task that was running, that was
\* added or that completed during the pass, or that is cancelled, stays; and
\* no step ever takes a cancelled task out of the list.
C33_ExactEffect ==
    [][ /\ (harvest.pc = "updating" /\ harvest'.pc = "idle") =>
            LET kept == (1..Len(task_list)) \ C33_Selected
                nth(j) == CHOOSE k \in kept : Cardinality({i \in kept : i <= k}) = j
            IN  /\ Len(task_list') = Cardinality(kept)
                /\ \A j \in 1..Len(task_list') : task_list'[j] = task_list[nth(j)]
        /\ Cardinality({k \in 1..Len(task_list') : task_list'[k].state = "cancelled"})
             >= Cardinality({k \in 1..Len(task_list) : task_list[k].state = "cancelled"})
      ]_vars

\* C33 witness: a pass has just ended that took a task out of the list while
\* a task added during the pass is still in it.
C33_Witness ==
    /\ harvest_obs.removed = 1
    /\ harvest_obs.added_in_pass
    /\ Len(task_list) = 1

====
